---- MODULE Spec2Model ----
(***************************************************************************)
(* State-machine model of the TrademindAI front end: the MissionControl    *)
(* page (MarketMonitor list panel + AIVerificationPanel), the Dashboard    *)
(* page (MarketScout + analyze action) and its PriceChart, taken alone.    *)
(*                                                                         *)
(* React state hooks are the variables.  An async handler is split at its  *)
(* await: the part before the first await is one action, the continuation  *)
(* after the response is another (all setState calls of one continuation   *)
(* are applied together, React 18 batching).                               *)
(***************************************************************************)
EXTENDS Integers, Sequences, FiniteSets, TLC

\* ---------------------------------------------------------------- bounds
MaxTrades == 2          \* longest trade list a response carries
EdgeBound == 60         \* edges examined by the formatter check: -EdgeBound..EdgeBound
MaxChartPending == 2    \* get_stock_history requests in flight at the same time
MaxPoints == 3          \* longest price series the change indicator is examined on
MaxLandingTicks == 130  \* firings of the landing animation's interval that are followed

\* ------------------------------------------------------------- constants
Null == "null"

MarketIds == {"A", "B", "C"}

\* strings that are searched are sequences of characters
Title == [A |-> <<"B", "t", "c">>, B |-> <<"E", "t", "h">>, C |-> <<"S", "P">>]
EventTicker == [A |-> <<"K", "B">>, B |-> <<"K", "E">>, C |-> <<"k", "s">>]
EdgeOf == [A |-> 8, B |-> 3, C |-> 0 - 2]
RecommendationOf == [A |-> "EXECUTE", B |-> "WAIT", C |-> "SKIP"]

TradePlan(id) == [market_id |-> id, event_ticker |-> EventTicker[id], title |-> Title[id]]

NoPlan == [market_id |-> Null, event_ticker |-> <<>>, title |-> <<>>]

Strategy1VerifiedTrade(id) ==
    [trade |-> TradePlan(id), edge |-> EdgeOf[id], recommendation |-> RecommendationOf[id]]

\* lists of pairwise different market ids (market_id is unique within a scan)
IdSeqs ==
    UNION {{s \in [1..n -> MarketIds] : \A i, j \in 1..n : i # j => s[i] # s[j]} :
           n \in 0..MaxTrades}

ScanPayloads == {[i \in 1..Len(s) |-> TradePlan(s[i])] : s \in IdSeqs}

VerifyPayloads == {[i \in 1..Len(s) |-> Strategy1VerifiedTrade(s[i])] : s \in IdSeqs}

\* Strategy1VerifyResponse | null.  hasTop = FALSE: a JSON body without top_opportunities
NoResponse == [kind |-> "null", hasTop |-> FALSE, top_opportunities |-> <<>>]
\* mutant: an empty result stored as no response at all
VerifyResponse_emptyAsNull(tops) ==
    IF Len(tops) = 0 THEN [kind |-> "null", hasTop |-> FALSE, top_opportunities |-> <<>>]
    ELSE [kind |-> "data", hasTop |-> TRUE, top_opportunities |-> tops]

VerifyResponse(tops) == [kind |-> "data", hasTop |-> TRUE, top_opportunities |-> tops]
BadVerifyResponse == [kind |-> "data", hasTop |-> FALSE, top_opportunities |-> <<>>]

\* a sonner notice: kind, text and the number the text carries (0 when none)
NoToast == [kind |-> "none", msg |-> "none", n |-> 0]
Toast(k, m, n) == [kind |-> k, msg |-> m, n |-> n]

timelineSteps == <<"scan", "source", "extract", "calculate", "rank">>

Min(a, b) == IF a < b THEN a ELSE b

\* ----------------------------------------------------------------- state
VARIABLES
    page,                 \* which route is mounted
    fmt,                  \* the formatter call under examination: [edge, done, color, border]
    badgeFmt,             \* the badge styling under examination: [label, done, recommendation, confidence]
    auditFmt,             \* the audit section under examination: [chain, audit, done, view]
    changeFmt,            \* the price-change indicator under examination: [data, done, view]
    \* TradingVisualization (landing page)
    visiblePoints, aiSignal, confidence,
    landingTicks,         \* history: how often the interval of the animation has fired
    \* MissionControl
    selectedOpportunity,
    \* MarketMonitor
    opportunities, mmIsLoading, searchQuery, scanPending,
    \* AIVerificationPanel
    isLoading, response, currentStep, expandedId, stepIntervals, verifyPending,
    \* Dashboard
    selectedTicker, analyzedTicker, recentSearches, isAnalyzing, strategy, analyzePending,
    \* MarketScout
    isScanning, results, scoutSelectedTicker, scoutPending,
    \* PriceChart
    activeTimeframe, chartData, chartLoading, hasFetched, chartPending,
    \* history (not program state)
    last,                 \* the step taken last: [op, toast, was], toast the notice it emitted
    delivered,            \* top_opportunities of the response now held, as the service sent them
    scanSnap,             \* while a scan is pending: opportunities when it was invoked
    verifySnap,           \* while a verification is pending: whether a response was held and
                          \* the identifier expanded when it was started
    scoutSnap,            \* while a scout is pending: results when it was invoked
    analyzeSnap,          \* while an analysis is pending: strategy when it was invoked
    toggleHist,           \* the toggleExpand calls made in a row: <<[id, before]>>, newest first
    chartOf               \* the request whose answer chartData holds: [ticker, period]

mcVars == <<selectedOpportunity, opportunities, mmIsLoading, searchQuery, scanPending,
            isLoading, response, currentStep, expandedId, stepIntervals, verifyPending>>

dbVars == <<selectedTicker, analyzedTicker, recentSearches, isAnalyzing, strategy,
            analyzePending, isScanning, results, scoutSelectedTicker, scoutPending>>

mcHist == <<delivered, scanSnap, verifySnap, toggleHist>>

dbHist == <<scoutSnap, analyzeSnap>>

histVars == <<last, mcHist, dbHist>>

\* what no step of the MissionControl page touches
chartVars == <<activeTimeframe, chartData, chartLoading, hasFetched, chartPending, chartOf>>

\* the renderings examined on their own
landingVars == <<visiblePoints, aiSignal, confidence, landingTicks>>

viewVars == <<auditFmt, changeFmt, landingVars>>

env == <<page, fmt, badgeFmt, viewVars, dbVars, dbHist, chartVars>>

vars == <<page, fmt, badgeFmt, viewVars, mcVars, dbVars, chartVars, histVars>>

Done(op, toast) == [op |-> op, toast |-> toast, was |-> Null]

\* a verification's resolution also records the identifier expanded when it was started
DoneVerify(op, toast, was) == [op |-> op, toast |-> toast, was |-> was]

NoSnap == [held |-> FALSE, expandedId |-> Null]

\* ------------------------------------------------------- pure functions
\* mutant: the lower breakpoint taken strictly
getEdgeColor_strictZero(edge) ==
    IF edge >= 5 THEN "text-emerald-400"
    ELSE IF edge > 0 THEN "text-amber-400"
    ELSE "text-rose-400"

getEdgeColor(edge) ==
    IF edge >= 5 THEN "text-emerald-400"
    ELSE IF edge >= 0 THEN "text-amber-400"
    ELSE "text-rose-400"

\* mutant: WAIT styled like SKIP
getRecommendationColor_waitAsSkip(rec) ==
    CASE rec = "EXECUTE" -> "text-emerald-400 bg-emerald-500/20 border-emerald-500/30"
      [] rec = "SKIP" -> "text-rose-400 bg-rose-500/20 border-rose-500/30"
      [] rec = "WAIT" -> "text-rose-400 bg-rose-500/20 border-rose-500/30"
      [] OTHER -> "text-muted-foreground bg-muted"

getRecommendationColor(rec) ==
    CASE rec = "EXECUTE" -> "text-emerald-400 bg-emerald-500/20 border-emerald-500/30"
      [] rec = "SKIP" -> "text-rose-400 bg-rose-500/20 border-rose-500/30"
      [] rec = "WAIT" -> "text-amber-400 bg-amber-500/20 border-amber-500/30"
      [] OTHER -> "text-muted-foreground bg-muted"

getConfidenceColor(conf) ==
    CASE conf = "HIGH" -> "text-emerald-400"
      [] conf = "MEDIUM" -> "text-amber-400"
      [] conf = "LOW" -> "text-rose-400"
      [] OTHER -> "text-muted-foreground"

\* an optional field of a JSON body: absent, or present with a value
Absent(v) == [present |-> FALSE, val |-> v]
Present(v) == [present |-> TRUE, val |-> v]

NoAuditView == [section |-> FALSE, steps |-> <<>>, fallback |-> FALSE, text |-> ""]

\* mutant: the fallback string is preferred when both are there
thoughtAuditTrail_fallbackFirst(chain, audit) ==
    LET hasChain == chain.present /\ Len(chain.val) > 0
        hasAudit == audit.present /\ audit.val # ""
    IN  IF hasChain \/ hasAudit
        THEN IF hasAudit
             THEN [section |-> TRUE, steps |-> <<>>, fallback |-> TRUE, text |-> audit.val]
             ELSE [section |-> TRUE, steps |-> chain.val, fallback |-> FALSE, text |-> ""]
        ELSE NoAuditView

\* the audit card of an expanded VerifiedTradeCard: whether it is rendered, the STEP
\* blocks in render order, and the fallback text block
thoughtAuditTrail(chain, audit) ==
    LET hasChain == chain.present /\ Len(chain.val) > 0
        hasAudit == audit.present /\ audit.val # ""
    IN  IF hasChain \/ hasAudit
        THEN IF hasChain
             THEN [section |-> TRUE, steps |-> chain.val, fallback |-> FALSE, text |-> ""]
             ELSE [section |-> TRUE, steps |-> <<>>, fallback |-> TRUE, text |-> audit.val]
        ELSE NoAuditView

\* data.length > 0 ? data[data.length - 1].price : 0
currentPrice(data) == IF Len(data) > 0 THEN data[Len(data)] ELSE 0

\* data.length > 0 ? data[0].price : 0
previousPrice(data) == IF Len(data) > 0 THEN data[1] ELSE 0

priceChange(data) == currentPrice(data) - previousPrice(data)

\* ((num / den) * 100).toFixed(2) for den > 0, as a count of hundredths of a percent:
\* the nearest one, a tie away from zero
toFixed2Percent(num, den) ==
    LET mag == (IF num < 0 THEN 0 - num ELSE num) * 10000
        q   == mag \div den
        n   == IF 2 * (mag % den) >= den THEN q + 1 ELSE q
    IN  IF num < 0 THEN 0 - n ELSE n

\* previousPrice !== 0 ? ((priceChange / previousPrice) * 100).toFixed(2) : "0.00"
percentChange(data) ==
    IF previousPrice(data) # 0 THEN toFixed2Percent(priceChange(data), previousPrice(data))
    ELSE 0

isPositive(data) == priceChange(data) >= 0

\* the border class of the expanded card's edge display
edgeBorder(edge) ==
    IF edge >= 5 THEN "border-emerald-500/50 bg-emerald-500/5"
    ELSE IF edge >= 0 THEN "border-amber-500/50 bg-amber-500/5"
    ELSE "border-rose-500/50 bg-rose-500/5"

\* mutant: the comparison is case-sensitive
toLowerCase_asIs(str) == str

\* String.prototype.toLowerCase over the letters that occur
toLowerCase(str) ==
    LET lower(c) == CASE c = "B" -> "b" [] c = "E" -> "e" [] c = "K" -> "k"
                      [] c = "S" -> "s" [] c = "P" -> "p" [] OTHER -> c
    IN  [i \in 1..Len(str) |-> lower(str[i])]

\* String.prototype.includes
includes(str, sub) ==
    \E k \in 0..(Len(str) - Len(sub)) : SubSeq(str, k + 1, k + Len(sub)) = sub

filteredOpportunities ==
    LET match(opp) == \/ includes(toLowerCase(opp.title), toLowerCase(searchQuery))
                      \/ includes(toLowerCase(opp.event_ticker), toLowerCase(searchQuery))
    IN  SelectSeq(opportunities, match)

\* the OpportunityCards MarketMonitor renders: none while loading
displayedOpportunities == IF mmIsLoading THEN <<>> ELSE filteredOpportunities

\* what the list area of MarketMonitor shows: the spinner, the cards, the
\* "No trades found / Click SCAN to search" block
MarketMonitorView ==
    [scanning |-> mmIsLoading,
     cards    |-> displayedOpportunities,
     noTrades |-> ~mmIsLoading /\ Len(opportunities) = 0]

\* mutant: the client puts a higher-edge second trade first
VerifiedTradeCards_byEdge(resp, expanded) ==
    LET tops == resp.top_opportunities
        order == IF Len(tops) >= 2 /\ tops[2].edge > tops[1].edge
                 THEN [i \in 1..Len(tops) |-> IF i = 1 THEN 2 ELSE IF i = 2 THEN 1 ELSE i]
                 ELSE [i \in 1..Len(tops) |-> i]
    IN  [i \in 1..Len(tops) |->
            [key        |-> tops[order[i]].trade.market_id,
             verified   |-> tops[order[i]],
             rank       |-> (i - 1) + 1,
             isExpanded |-> expanded = tops[order[i]].trade.market_id]]

\* the cards AIVerificationPanel renders for a response, in render order
VerifiedTradeCards(resp, expanded) ==
    [i \in 1..Len(resp.top_opportunities) |->
        [key        |-> resp.top_opportunities[i].trade.market_id,
         verified   |-> resp.top_opportunities[i],
         rank       |-> (i - 1) + 1,
         isExpanded |-> expanded = resp.top_opportunities[i].trade.market_id]]

\* response?.top_opportunities.map(...) on a body without top_opportunities throws
RenderThrows == page = "mission" /\ response.kind = "data" /\ ~response.hasTop

IdleShown == ~isLoading /\ response.kind = "null"

EmptyShown == response.kind = "data" /\ response.hasTop /\ Len(response.top_opportunities) = 0

\* text typed into the filter box
Queries == {<<>>, <<"b">>, <<"K", "E">>}

\* ------------------------------------------------------------------ Init
NoFmt == [edge |-> 0, done |-> FALSE, color |-> "none", border |-> "none"]

NoBadge == [label |-> "", done |-> FALSE, recommendation |-> "none", confidence |-> "none"]

NoAuditFmt == [chain |-> Absent(<<>>), audit |-> Absent(""), done |-> FALSE, view |-> NoAuditView]

NoChangeView == [currentPrice |-> 0, percentChange |-> 0, isPositive |-> FALSE]

NoChangeFmt == [data |-> <<>>, done |-> FALSE, view |-> NoChangeView]

\* TradingVisualization as mounted
InitTradingVisualization ==
    /\ visiblePoints = 10
    /\ aiSignal = FALSE
    /\ confidence = 0
    /\ landingTicks = 0

InitView ==
    /\ auditFmt = NoAuditFmt
    /\ changeFmt = NoChangeFmt
    /\ InitTradingVisualization

InitMission ==
    /\ selectedOpportunity = NoPlan
    /\ opportunities = <<>>
    /\ mmIsLoading = FALSE
    /\ searchQuery = <<>>
    /\ scanPending = 0
    /\ isLoading = FALSE
    /\ response = NoResponse
    /\ currentStep = 0
    /\ expandedId = Null
    /\ stepIntervals = 0
    /\ verifyPending = 0
    /\ last = Done("init", NoToast)
    /\ delivered = <<>>
    /\ scanSnap = <<>>
    /\ verifySnap = NoSnap
    /\ toggleHist = <<>>

\* tickers the service knows, and what a user types into the ticker box
Tickers == {"AAPL", "TSLA"}

Typed == {"", "aapl", "TSLA"}

toUpperCase(str) ==
    CASE str = "aapl" -> "AAPL" [] str = "tsla" -> "TSLA" [] OTHER -> str

\* String.prototype.trim of a ticker-box value (none of them carries white space)
trim(str) == str

ScoutResult(t) == [ticker |-> t]

ScoutPayloads ==
    UNION {{[i \in 1..n |-> ScoutResult(s[i])] :
              s \in {q \in [1..n -> Tickers] : \A i, j \in 1..n : i # j => q[i] # q[j]}} :
           n \in 0..MaxTrades}

\* a field of the analyze_stock body: a numeral, or something parseFloat cannot read
Numeral(v) == [numeric |-> TRUE, val |-> v]
NotANumber == [numeric |-> FALSE, val |-> 0]

\* confidence_score is carried in hundredths
AnalysisPayloads ==
    {[entry_zone |-> Numeral(150), take_profit |-> Numeral(170), stop_loss |-> Numeral(140),
      confidence_score |-> 87],
     [entry_zone |-> NotANumber, take_profit |-> NotANumber, stop_loss |-> NotANumber,
      confidence_score |-> 0]}

\* parseFloat(x) || 0
parseFloatOr0(x) == IF x.numeric THEN x.val ELSE 0

NoStrategy == [set |-> FALSE, entryPrice |-> 0, exitPrice |-> 0, stopLoss |-> 0, confidence |-> 0]

StrategyOf(data) ==
    [set |-> TRUE,
     entryPrice |-> parseFloatOr0(data.entry_zone),
     exitPrice |-> parseFloatOr0(data.take_profit),
     stopLoss |-> parseFloatOr0(data.stop_loss),
     confidence |-> data.confidence_score]

InitDashboard ==
    /\ selectedTicker = "AAPL"
    /\ analyzedTicker = Null
    /\ recentSearches = <<>>
    /\ isAnalyzing = FALSE
    /\ strategy = NoStrategy
    /\ analyzePending = 0
    /\ isScanning = FALSE
    /\ results = <<>>
    /\ scoutSelectedTicker = Null
    /\ scoutPending = 0
    /\ scoutSnap = <<>>
    /\ analyzeSnap = NoStrategy

\* the period values of the timeframe buttons: 1D, 5D, 1M, 6M
timeframes == <<"1d", "5d", "1mo", "6mo">>

\* price series a get_stock_history body carries (first to last price)
ChartSeries == {<<>>, <<100, 110>>, <<110, 100>>}

NoRequest == [ticker |-> Null, period |-> Null]

InitChart ==
    /\ chartOf = NoRequest
    /\ activeTimeframe = timeframes[3]
    /\ chartData = <<>>
    /\ chartLoading = FALSE
    /\ hasFetched = FALSE
    /\ chartPending = <<>>

Init ==
    /\ page \in {"mission", "dashboard", "chart"}
    /\ fmt = NoFmt
    /\ badgeFmt = NoBadge
    /\ InitView
    /\ InitMission
    /\ InitDashboard
    /\ InitChart

\* the page is mounted and its render has not thrown
MissionUp == page = "mission" /\ ~RenderThrows

\* ---------------------------------------------------------- MarketMonitor
mmVars == <<opportunities, mmIsLoading, searchQuery, scanPending>>
vpVars == <<isLoading, response, currentStep, expandedId, stepIntervals, verifyPending>>
vpHist == <<delivered, verifySnap>>

\* fetchOpportunities up to its await; the SCAN button is disabled while loading
fetchOpportunities ==
    /\ MissionUp
    /\ ~mmIsLoading
    /\ mmIsLoading' = TRUE
    /\ scanPending' = scanPending + 1
    /\ scanSnap' = opportunities
    /\ last' = Done("fetchOpportunities", NoToast)
    /\ toggleHist' = <<>>
    /\ UNCHANGED <<env, selectedOpportunity, opportunities, searchQuery, vpVars, vpHist>>

\* the notice after a successful scan
scanToast(trades) ==
    IF Len(trades) > 0 THEN Toast("success", "Found opportunities", Len(trades)) ELSE NoToast

\* mutant: a selection that is not in the new result set is dropped
fetchOpportunities_resolved_dropsSelection(trades) ==
    /\ MissionUp
    /\ scanPending > 0
    /\ scanPending' = scanPending - 1
    /\ opportunities' = trades
    /\ selectedOpportunity' =
           IF \E i \in 1..Len(trades) : trades[i].market_id = selectedOpportunity.market_id
           THEN selectedOpportunity ELSE NoPlan
    /\ mmIsLoading' = FALSE
    /\ last' = Done("scanResolved", scanToast(trades))
    /\ scanSnap' = <<>>
    /\ toggleHist' = <<>>
    /\ UNCHANGED <<env, searchQuery, vpVars, vpHist>>

\* the scan answered 2xx with {trades}
fetchOpportunities_resolved(trades) ==
    /\ MissionUp
    /\ scanPending > 0
    /\ scanPending' = scanPending - 1
    /\ opportunities' = trades
    /\ mmIsLoading' = FALSE
    /\ last' = Done("scanResolved", scanToast(trades))
    /\ scanSnap' = <<>>
    /\ toggleHist' = <<>>
    /\ UNCHANGED <<env, selectedOpportunity, searchQuery, vpVars, vpHist>>

\* mutant: the failure path clears the list
fetchOpportunities_rejected_clears ==
    /\ MissionUp
    /\ scanPending > 0
    /\ scanPending' = scanPending - 1
    /\ opportunities' = <<>>
    /\ mmIsLoading' = FALSE
    /\ last' = Done("scanRejected", Toast("error", "Strategy Engine Offline", 0))
    /\ scanSnap' = <<>>
    /\ toggleHist' = <<>>
    /\ UNCHANGED <<env, selectedOpportunity, searchQuery, vpVars, vpHist>>

\* transport error, !res.ok, or a body that is not JSON: the catch block
fetchOpportunities_rejected ==
    /\ MissionUp
    /\ scanPending > 0
    /\ scanPending' = scanPending - 1
    /\ mmIsLoading' = FALSE
    /\ last' = Done("scanRejected", Toast("error", "Strategy Engine Offline", 0))
    /\ scanSnap' = <<>>
    /\ toggleHist' = <<>>
    /\ UNCHANGED <<env, selectedOpportunity, opportunities, searchQuery, vpVars, vpHist>>

\* a 2xx body without trades: setOpportunities([]) runs, then data.trades.length throws
fetchOpportunities_noTrades ==
    /\ MissionUp
    /\ scanPending > 0
    /\ scanPending' = scanPending - 1
    /\ opportunities' = <<>>
    /\ mmIsLoading' = FALSE
    /\ last' = Done("scanNoTrades", Toast("error", "Strategy Engine Offline", 0))
    /\ scanSnap' = <<>>
    /\ toggleHist' = <<>>
    /\ UNCHANGED <<env, selectedOpportunity, searchQuery, vpVars, vpHist>>

\* onChange of the filter input
setSearchQuery(q) ==
    /\ MissionUp
    /\ searchQuery' = q
    /\ last' = Done("setSearchQuery", NoToast)
    /\ toggleHist' = <<>>
    /\ UNCHANGED <<env, selectedOpportunity, opportunities, mmIsLoading, scanPending,
                   scanSnap, vpVars, vpHist>>

\* mutant: the list selection also drives the detail expansion
onSelectOpportunity_expands(opp) ==
    /\ MissionUp
    /\ ~mmIsLoading
    /\ \E i \in 1..Len(filteredOpportunities) : filteredOpportunities[i] = opp
    /\ selectedOpportunity' = opp
    /\ expandedId' = opp.market_id
    /\ last' = Done("onSelectOpportunity", NoToast)
    /\ toggleHist' = <<>>
    /\ UNCHANGED <<env, mmVars, scanSnap, isLoading, response, currentStep, stepIntervals,
                   verifyPending, vpHist>>

\* a click on a rendered OpportunityCard: onSelectOpportunity = setSelectedOpportunity
onSelectOpportunity(opp) ==
    /\ MissionUp
    /\ ~mmIsLoading
    /\ \E i \in 1..Len(filteredOpportunities) : filteredOpportunities[i] = opp
    /\ selectedOpportunity' = opp
    /\ last' = Done("onSelectOpportunity", NoToast)
    /\ toggleHist' = <<>>
    /\ UNCHANGED <<env, mmVars, scanSnap, vpVars, vpHist>>

\* ---------------------------------------------------- AIVerificationPanel
mcFrame == <<env, selectedOpportunity, mmVars, scanSnap>>

\* mutant: the clamp is one too high, the ticks alone complete the timeline
stepAfterTick_completes(prev) == Min(prev + 1, Len(timelineSteps))

\* mutant: the clamp is missing
stepAfterTick_unclamped(prev) == prev + 1

\* the interval callback: prev => Math.min(prev + 1, timelineSteps.length - 1)
stepAfterTick(prev) == Min(prev + 1, Len(timelineSteps) - 1)

\* mutant: a click always expands
toggledId_noCollapse(expanded, marketId) == marketId

\* the value toggleExpand passes to setExpandedId
toggledId(expanded, marketId) == IF expanded = marketId THEN Null ELSE marketId

\* mutant: the last trade is expanded instead of the first
autoExpanded_last(tops, expanded) ==
    IF Len(tops) > 0 THEN tops[Len(tops)].trade.market_id ELSE expanded

\* the auto-expansion at the end of the try block
autoExpanded(tops, expanded) ==
    IF Len(tops) > 0 THEN tops[1].trade.market_id ELSE expanded

\* the notice chosen after a successful verification
verifyToast(tops) ==
    LET execCount == Cardinality({i \in 1..Len(tops) : tops[i].recommendation = "EXECUTE"})
    IN  IF execCount > 0 THEN Toast("success", "Found executable trades!", execCount)
        ELSE IF Len(tops) > 0
             THEN Toast("info", "Analysis complete - review recommendations", 0)
             ELSE Toast("info", "No opportunities found right now", 0)

\* mutant: the start of a request leaves the expansion as it was
fetchTop3_keepsExpanded ==
    /\ MissionUp
    /\ ~isLoading
    /\ isLoading' = TRUE
    /\ currentStep' = 0
    /\ response' = NoResponse
    /\ stepIntervals' = stepIntervals + 1
    /\ verifyPending' = verifyPending + 1
    /\ verifySnap' = [held |-> response.kind = "data", expandedId |-> expandedId]
    /\ delivered' = <<>>
    /\ last' = Done("fetchTop3", NoToast)
    /\ toggleHist' = <<>>
    /\ UNCHANGED <<mcFrame, expandedId>>

\* mutant: the start of a request keeps the result of the previous one
fetchTop3_keepsResult ==
    /\ MissionUp
    /\ ~isLoading
    /\ isLoading' = TRUE
    /\ currentStep' = 0
    /\ stepIntervals' = stepIntervals + 1
    /\ verifyPending' = verifyPending + 1
    /\ verifySnap' = [held |-> response.kind = "data", expandedId |-> expandedId]
    /\ last' = Done("fetchTop3", NoToast)
    /\ toggleHist' = <<>>
    /\ UNCHANGED <<mcFrame, response, expandedId, delivered>>

\* mutant: the button is not disabled while a verification is running
fetchTop3_reentrant ==
    /\ MissionUp
    /\ isLoading' = TRUE
    /\ currentStep' = 0
    /\ response' = NoResponse
    /\ expandedId' = Null
    /\ stepIntervals' = stepIntervals + 1
    /\ verifyPending' = verifyPending + 1
    /\ verifySnap' = [held |-> response.kind = "data", expandedId |-> expandedId]
    /\ delivered' = <<>>
    /\ last' = Done("fetchTop3", NoToast)
    /\ toggleHist' = <<>>
    /\ UNCHANGED mcFrame

\* fetchTop3 up to its await; the button is disabled while loading
fetchTop3 ==
    /\ MissionUp
    /\ ~isLoading
    /\ isLoading' = TRUE
    /\ currentStep' = 0
    /\ response' = NoResponse
    /\ expandedId' = Null
    /\ stepIntervals' = stepIntervals + 1
    /\ verifyPending' = verifyPending + 1
    /\ verifySnap' = [held |-> response.kind = "data", expandedId |-> expandedId]
    /\ delivered' = <<>>
    /\ last' = Done("fetchTop3", NoToast)
    /\ toggleHist' = <<>>
    /\ UNCHANGED mcFrame

\* one firing of stepInterval
stepIntervalTick ==
    /\ MissionUp
    /\ stepIntervals > 0
    /\ currentStep' = stepAfterTick(currentStep)
    /\ last' = Done("tick", NoToast)
    /\ toggleHist' = <<>>
    /\ UNCHANGED <<mcFrame, isLoading, response, expandedId, stepIntervals, verifyPending,
                   vpHist>>

\* mutant: the success path leaves the interval running
fetchTop3_resolved_leavesTimer(tops) ==
    /\ MissionUp
    /\ verifyPending > 0
    /\ verifyPending' = verifyPending - 1
    /\ currentStep' = Len(timelineSteps)
    /\ response' = VerifyResponse(tops)
    /\ expandedId' = autoExpanded(tops, expandedId)
    /\ isLoading' = FALSE
    /\ delivered' = tops
    /\ last' = DoneVerify("verifyResolved", verifyToast(tops), verifySnap.expandedId)
    /\ verifySnap' = NoSnap
    /\ toggleHist' = <<>>
    /\ UNCHANGED <<mcFrame, stepIntervals>>

\* the verification answered 2xx with a Strategy1VerifyResponse
fetchTop3_resolved(tops) ==
    /\ MissionUp
    /\ verifyPending > 0
    /\ verifyPending' = verifyPending - 1
    /\ stepIntervals' = stepIntervals - 1
    /\ currentStep' = Len(timelineSteps)
    /\ response' = VerifyResponse(tops)
    /\ expandedId' = autoExpanded(tops, expandedId)
    /\ isLoading' = FALSE
    /\ delivered' = tops
    /\ last' = DoneVerify("verifyResolved", verifyToast(tops), verifySnap.expandedId)
    /\ verifySnap' = NoSnap
    /\ toggleHist' = <<>>
    /\ UNCHANGED mcFrame

\* mutant: the failure path does not reach setIsLoading(false)
fetchTop3_rejected_staysLoading ==
    /\ MissionUp
    /\ verifyPending > 0
    /\ verifyPending' = verifyPending - 1
    /\ stepIntervals' = stepIntervals - 1
    /\ last' = DoneVerify("verifyRejected", Toast("error", "Verification failed", 0),
                          verifySnap.expandedId)
    /\ verifySnap' = NoSnap
    /\ toggleHist' = <<>>
    /\ UNCHANGED <<mcFrame, isLoading, response, currentStep, expandedId, delivered>>

\* transport error, !res.ok, or a body that is not JSON: the catch block
fetchTop3_rejected ==
    /\ MissionUp
    /\ verifyPending > 0
    /\ verifyPending' = verifyPending - 1
    /\ stepIntervals' = stepIntervals - 1
    /\ isLoading' = FALSE
    /\ last' = DoneVerify("verifyRejected", Toast("error", "Verification failed", 0),
                          verifySnap.expandedId)
    /\ verifySnap' = NoSnap
    /\ toggleHist' = <<>>
    /\ UNCHANGED <<mcFrame, response, currentStep, expandedId, delivered>>

\* a 2xx body without top_opportunities: the step and the response are set, then
\* data.top_opportunities.filter throws into the catch block
fetchTop3_noTops ==
    /\ MissionUp
    /\ verifyPending > 0
    /\ verifyPending' = verifyPending - 1
    /\ stepIntervals' = stepIntervals - 1
    /\ currentStep' = Len(timelineSteps)
    /\ response' = BadVerifyResponse
    /\ isLoading' = FALSE
    /\ last' = DoneVerify("verifyNoTops", Toast("error", "Verification failed", 0),
                          verifySnap.expandedId)
    /\ verifySnap' = NoSnap
    /\ toggleHist' = <<>>
    /\ UNCHANGED <<mcFrame, expandedId, delivered>>

\* a click on the rendered VerifiedTradeCard of marketId
toggleExpand(marketId) ==
    /\ MissionUp
    /\ response.kind = "data"
    /\ \E i \in 1..Len(response.top_opportunities) :
           response.top_opportunities[i].trade.market_id = marketId
    /\ expandedId' = toggledId(expandedId, marketId)
    /\ toggleHist' = IF toggleHist # <<>> /\ toggleHist[1].id = marketId
                      THEN <<[id |-> marketId, before |-> expandedId], toggleHist[1]>>
                      ELSE <<[id |-> marketId, before |-> expandedId]>>
    /\ last' = Done("toggleExpand", NoToast)
    /\ UNCHANGED <<mcFrame, isLoading, response, currentStep, stepIntervals, verifyPending,
                   vpHist>>

\* ------------------------------------------------- leaving MissionControl
\* a click on a TopNavigation link: the router unmounts MissionControl.  The state of
\* its components is discarded; neither fetchTop3 nor the component registers a
\* cleanup, so a running stepInterval and the requests in flight outlive the page.
unmountMissionControl ==
    /\ MissionUp
    /\ page' = "unmounted"
    /\ selectedOpportunity' = NoPlan
    /\ opportunities' = <<>>
    /\ mmIsLoading' = FALSE
    /\ searchQuery' = <<>>
    /\ isLoading' = FALSE
    /\ response' = NoResponse
    /\ currentStep' = 0
    /\ expandedId' = Null
    /\ delivered' = <<>>
    /\ scanSnap' = <<>>
    /\ verifySnap' = NoSnap
    /\ toggleHist' = <<>>
    /\ last' = Done("unmount", NoToast)
    /\ UNCHANGED <<fmt, badgeFmt, viewVars, dbVars, dbHist, chartVars, scanPending, stepIntervals, verifyPending>>

\* stepInterval fires after the unmount: setCurrentStep on an unmounted component
\* is ignored
stepIntervalTick_unmounted ==
    /\ page = "unmounted"
    /\ stepIntervals > 0
    /\ last' = Done("tickUnmounted", NoToast)
    /\ UNCHANGED <<env, selectedOpportunity, mmVars, vpVars, mcHist>>

\* what the continuation of fetchTop3 can pass to sonner
VerifyToasts ==
    {verifyToast(tops) : tops \in VerifyPayloads} \cup {Toast("error", "Verification failed", 0)}

\* the verification settles after the unmount: clearInterval runs in the try or the
\* catch block, the state setters are ignored, the notice is still shown
fetchTop3_settledUnmounted(toast) ==
    /\ page = "unmounted"
    /\ verifyPending > 0
    /\ verifyPending' = verifyPending - 1
    /\ stepIntervals' = stepIntervals - 1
    /\ last' = Done("verifySettledUnmounted", toast)
    /\ UNCHANGED <<env, selectedOpportunity, mmVars, isLoading, response, currentStep,
                   expandedId, mcHist>>

\* what the continuation of fetchOpportunities can pass to sonner
ScanToasts ==
    {scanToast(trades) : trades \in ScanPayloads}
        \cup {Toast("error", "Strategy Engine Offline", 0)}

\* the scan settles after the unmount
fetchOpportunities_settledUnmounted(toast) ==
    /\ page = "unmounted"
    /\ scanPending > 0
    /\ scanPending' = scanPending - 1
    /\ last' = Done("scanSettledUnmounted", toast)
    /\ UNCHANGED <<env, selectedOpportunity, opportunities, mmIsLoading, searchQuery,
                   vpVars, mcHist>>

\* ------------------------------------------------------------- Dashboard
DashboardUp == page = "dashboard"

mcAll == <<page, fmt, badgeFmt, viewVars, mcVars, mcHist, chartVars>>

scoutVars == <<isScanning, results, scoutSelectedTicker, scoutPending, scoutSnap>>

analystVars == <<analyzedTicker, recentSearches, isAnalyzing, strategy, analyzePending,
                 analyzeSnap>>

\* typing in the ticker box: onChange(e.target.value.toUpperCase()) -> handleInputChange
handleInputChange(typed) ==
    /\ DashboardUp
    /\ selectedTicker' = toUpperCase(typed)
    /\ last' = Done("handleInputChange", NoToast)
    /\ UNCHANGED <<mcAll, scoutVars, analystVars>>

\* a click on a recent-search badge: onChange(ticker)
recentClick(i) ==
    /\ DashboardUp
    /\ i \in 1..Len(recentSearches)
    /\ selectedTicker' = recentSearches[i]
    /\ last' = Done("recentClick", NoToast)
    /\ UNCHANGED <<mcAll, scoutVars, analystVars>>

\* mutant: submitting the search form also sets the analyzed ticker
handleSubmit_analyzes ==
    /\ DashboardUp
    /\ selectedTicker' = IF trim(selectedTicker) # "" THEN toUpperCase(selectedTicker)
                          ELSE selectedTicker
    /\ analyzedTicker' = selectedTicker'
    /\ last' = Done("handleSubmit", NoToast)
    /\ UNCHANGED <<mcAll, scoutVars, recentSearches, isAnalyzing, strategy, analyzePending,
                   analyzeSnap>>

\* submitting the search form: handleSubmit -> onSearch = handleSetTicker
handleSubmit ==
    /\ DashboardUp
    /\ selectedTicker' = IF trim(selectedTicker) # "" THEN toUpperCase(selectedTicker)
                          ELSE selectedTicker
    /\ last' = Done("handleSubmit", NoToast)
    /\ UNCHANGED <<mcAll, scoutVars, analystVars>>

\* mutant: the ticker is put in front without removing its earlier entry
recentAfter_noDedupe(prev, ticker) ==
    LET all == <<ticker>> \o prev
    IN  SubSeq(all, 1, Min(Len(all), 5))

\* [selectedTicker, ...prev.filter(t => t !== selectedTicker)].slice(0, 5)
recentAfter(prev, ticker) ==
    LET keep(t) == t # ticker
        all == <<ticker>> \o SelectSeq(prev, keep)
    IN  SubSeq(all, 1, Min(Len(all), 5))

\* mutant: the empty input is caught only after the strategy was cleared
handleAnalyze_empty_clears ==
    /\ DashboardUp
    /\ ~isAnalyzing
    /\ selectedTicker = ""
    /\ strategy' = NoStrategy
    /\ last' = Done("handleAnalyzeEmpty", Toast("error", "Please enter a ticker symbol.", 0))
    /\ UNCHANGED <<mcAll, selectedTicker, scoutVars, analyzedTicker, recentSearches,
                   isAnalyzing, analyzePending, analyzeSnap>>

\* handleAnalyze with an empty input: a notice and nothing else
handleAnalyze_empty ==
    /\ DashboardUp
    /\ ~isAnalyzing
    /\ selectedTicker = ""
    /\ last' = Done("handleAnalyzeEmpty", Toast("error", "Please enter a ticker symbol.", 0))
    /\ UNCHANGED <<mcAll, selectedTicker, scoutVars, analystVars>>

\* handleAnalyze up to its await; the button is disabled while analyzing
handleAnalyze ==
    /\ DashboardUp
    /\ ~isAnalyzing
    /\ selectedTicker # ""
    /\ isAnalyzing' = TRUE
    /\ strategy' = NoStrategy
    /\ analyzedTicker' = selectedTicker
    /\ recentSearches' = recentAfter(recentSearches, selectedTicker)
    /\ analyzePending' = analyzePending + 1
    /\ analyzeSnap' = strategy
    /\ last' = Done("handleAnalyze", NoToast)
    /\ UNCHANGED <<mcAll, selectedTicker, scoutVars>>

\* analyze_stock answered 2xx
handleAnalyze_resolved(data) ==
    /\ DashboardUp
    /\ analyzePending > 0
    /\ analyzePending' = analyzePending - 1
    /\ strategy' = StrategyOf(data)
    /\ isAnalyzing' = FALSE
    /\ analyzeSnap' = NoStrategy
    /\ last' = Done("analyzeResolved", Toast("success", "Strategy generated successfully!", 0))
    /\ UNCHANGED <<mcAll, selectedTicker, analyzedTicker, recentSearches, scoutVars>>

\* transport error, !response.ok, or a body that is not JSON: the catch block
handleAnalyze_rejected ==
    /\ DashboardUp
    /\ analyzePending > 0
    /\ analyzePending' = analyzePending - 1
    /\ isAnalyzing' = FALSE
    /\ analyzeSnap' = NoStrategy
    /\ last' = Done("analyzeRejected", Toast("error", "Failed to generate strategy.", 0))
    /\ UNCHANGED <<mcAll, selectedTicker, analyzedTicker, recentSearches, strategy, scoutVars>>

\* handleScout up to its await; the button is disabled while scanning
handleScout ==
    /\ DashboardUp
    /\ ~isScanning
    /\ isScanning' = TRUE
    /\ results' = <<>>
    /\ scoutPending' = scoutPending + 1
    /\ scoutSnap' = results
    /\ last' = Done("handleScout", NoToast)
    /\ UNCHANGED <<mcAll, selectedTicker, scoutSelectedTicker, analystVars>>

\* get_news_trading_candidates answered 2xx
handleScout_resolved(data) ==
    /\ DashboardUp
    /\ scoutPending > 0
    /\ scoutPending' = scoutPending - 1
    /\ results' = data
    /\ isScanning' = FALSE
    /\ scoutSnap' = <<>>
    /\ last' = Done("scoutResolved",
                     IF Len(data) = 0
                     THEN Toast("info", "No candidates found matching criteria.", 0)
                     ELSE NoToast)
    /\ UNCHANGED <<mcAll, selectedTicker, scoutSelectedTicker, analystVars>>

\* transport error, !response.ok, or a body that is not JSON: the catch block
handleScout_rejected ==
    /\ DashboardUp
    /\ scoutPending > 0
    /\ scoutPending' = scoutPending - 1
    /\ isScanning' = FALSE
    /\ scoutSnap' = <<>>
    /\ last' = Done("scoutRejected", Toast("error", "Failed to fetch market candidates.", 0))
    /\ UNCHANGED <<mcAll, selectedTicker, results, scoutSelectedTicker, analystVars>>

\* a click on a scout result: handleSelectResult -> onSelectTicker = handleSetTicker
handleSelectResult(i) ==
    /\ DashboardUp
    /\ i \in 1..Len(results)
    /\ scoutSelectedTicker' = results[i].ticker
    /\ selectedTicker' = results[i].ticker
    /\ last' = Done("handleSelectResult", NoToast)
    /\ UNCHANGED <<mcAll, isScanning, results, scoutPending, scoutSnap, analystVars>>

\* ------------------------------------------------------------ PriceChart
\* PriceChart is examined on its own: its ticker prop is Dashboard's analyzedTicker,
\* which handleAnalyze sets; everything else of the Dashboard is left out of this page
ChartUp == page = "chart"

chartFrame == <<page, fmt, badgeFmt, viewVars, mcVars, mcHist, dbHist, selectedTicker, recentSearches,
                isAnalyzing, strategy, analyzePending, isScanning, results,
                scoutSelectedTicker, scoutPending>>

\* the effect body up to its await: setLoading(true) and the request for (ticker, period)
fetchChartData(loading, pending, ticker, period) ==
    [loading |-> TRUE, pending |-> Append(pending, [ticker |-> ticker, period |-> period])]

Remove(seq, i) == SubSeq(seq, 1, i - 1) \o SubSeq(seq, i + 1, Len(seq))

\* handleAnalyze's setAnalyzedTicker(selectedTicker) with a new value: the prop changes
\* and the effect runs
setAnalyzedTicker(t) ==
    /\ ChartUp
    /\ t # analyzedTicker
    /\ Len(chartPending) < MaxChartPending
    /\ analyzedTicker' = t
    /\ chartLoading' = fetchChartData(chartLoading, chartPending, t, activeTimeframe).loading
    /\ chartPending' = fetchChartData(chartLoading, chartPending, t, activeTimeframe).pending
    /\ last' = Done("setAnalyzedTicker", NoToast)
    /\ UNCHANGED <<chartFrame, activeTimeframe, chartData, hasFetched, chartOf>>

\* a click on a timeframe button of the data view: the effect runs for the new period
setActiveTimeframe(i) ==
    /\ ChartUp
    /\ analyzedTicker # Null /\ hasFetched
    /\ timeframes[i] # activeTimeframe
    /\ Len(chartPending) < MaxChartPending
    /\ activeTimeframe' = timeframes[i]
    /\ chartLoading' = fetchChartData(chartLoading, chartPending, analyzedTicker, timeframes[i]).loading
    /\ chartPending' = fetchChartData(chartLoading, chartPending, analyzedTicker, timeframes[i]).pending
    /\ last' = Done("setActiveTimeframe", NoToast)
    /\ UNCHANGED <<chartFrame, analyzedTicker, chartData, hasFetched, chartOf>>

\* mutant: an answer is applied only if it is for the ticker and period now shown
fetchChartData_resolved_guarded(i, json) ==
    /\ ChartUp
    /\ i \in 1..Len(chartPending)
    /\ chartPending' = Remove(chartPending, i)
    /\ LET current == chartPending[i] = [ticker |-> analyzedTicker, period |-> activeTimeframe]
       IN  /\ chartData' = IF current THEN json ELSE chartData
           /\ chartOf' = IF current THEN chartPending[i] ELSE chartOf
           /\ hasFetched' = (hasFetched \/ current)
    /\ chartLoading' = FALSE
    /\ last' = Done("chartResolved", NoToast)
    /\ UNCHANGED <<chartFrame, analyzedTicker, activeTimeframe>>

\* request i answered 2xx with a series
fetchChartData_resolved(i, json) ==
    /\ ChartUp
    /\ i \in 1..Len(chartPending)
    /\ chartPending' = Remove(chartPending, i)
    /\ chartData' = json
    /\ chartOf' = chartPending[i]
    /\ hasFetched' = TRUE
    /\ chartLoading' = FALSE
    /\ last' = Done("chartResolved", NoToast)
    /\ UNCHANGED <<chartFrame, analyzedTicker, activeTimeframe>>

\* request i answered with a non-success status: the if (res.ok) body is skipped
fetchChartData_notOk(i) ==
    /\ ChartUp
    /\ i \in 1..Len(chartPending)
    /\ chartPending' = Remove(chartPending, i)
    /\ chartLoading' = FALSE
    /\ last' = Done("chartNotOk", NoToast)
    /\ UNCHANGED <<chartFrame, analyzedTicker, activeTimeframe, chartData, hasFetched, chartOf>>

\* request i failed in transport or carried no JSON: the catch block logs to the console
fetchChartData_rejected(i) ==
    /\ ChartUp
    /\ i \in 1..Len(chartPending)
    /\ chartPending' = Remove(chartPending, i)
    /\ chartLoading' = FALSE
    /\ last' = Done("chartRejected", NoToast)
    /\ UNCHANGED <<chartFrame, analyzedTicker, activeTimeframe, chartData, hasFetched, chartOf>>

\* ------------------------------------------------------------------ Next
Next ==
    \/ fetchOpportunities
    \/ \E trades \in ScanPayloads : fetchOpportunities_resolved(trades)
    \/ fetchOpportunities_rejected
    \/ fetchOpportunities_noTrades
    \/ \E q \in Queries : setSearchQuery(q)
    \/ \E id \in MarketIds : onSelectOpportunity(TradePlan(id))
    \/ fetchTop3
    \/ stepIntervalTick
    \/ \E tops \in VerifyPayloads : fetchTop3_resolved(tops)
    \/ fetchTop3_rejected
    \/ fetchTop3_noTops
    \/ \E id \in MarketIds : toggleExpand(id)
    \/ unmountMissionControl
    \/ stepIntervalTick_unmounted
    \/ \E toast \in VerifyToasts : fetchTop3_settledUnmounted(toast)
    \/ \E toast \in ScanToasts : fetchOpportunities_settledUnmounted(toast)
    \/ \E typed \in Typed : handleInputChange(typed)
    \/ \E i \in 1..5 : recentClick(i)
    \/ handleSubmit
    \/ handleAnalyze_empty
    \/ handleAnalyze
    \/ \E data \in AnalysisPayloads : handleAnalyze_resolved(data)
    \/ handleAnalyze_rejected
    \/ handleScout
    \/ \E data \in ScoutPayloads : handleScout_resolved(data)
    \/ handleScout_rejected
    \/ \E i \in 1..MaxTrades : handleSelectResult(i)
    \/ \E t \in Tickers : setAnalyzedTicker(t)
    \/ \E i \in 1..Len(timeframes) : setActiveTimeframe(i)
    \/ \E i \in 1..MaxChartPending, json \in ChartSeries : fetchChartData_resolved(i, json)
    \/ \E i \in 1..MaxChartPending : fetchChartData_notOk(i)
    \/ \E i \in 1..MaxChartPending : fetchChartData_rejected(i)

Spec == Init /\ [][Next]_vars

\* a request in flight settles: the browser resolves or rejects every fetch promise and
\* the event loop runs its continuation; a running interval keeps firing
VerifySettles ==
    \/ \E tops \in VerifyPayloads : fetchTop3_resolved(tops)
    \/ fetchTop3_rejected
    \/ fetchTop3_noTops
    \/ \E toast \in VerifyToasts : fetchTop3_settledUnmounted(toast)

ScanSettles ==
    \/ \E trades \in ScanPayloads : fetchOpportunities_resolved(trades)
    \/ fetchOpportunities_rejected
    \/ fetchOpportunities_noTrades
    \/ \E toast \in ScanToasts : fetchOpportunities_settledUnmounted(toast)

ScoutSettles == (\E data \in ScoutPayloads : handleScout_resolved(data)) \/ handleScout_rejected

AnalyzeSettles ==
    (\E data \in AnalysisPayloads : handleAnalyze_resolved(data)) \/ handleAnalyze_rejected

ChartSettles ==
    \E i \in 1..MaxChartPending :
        \/ \E json \in ChartSeries : fetchChartData_resolved(i, json)
        \/ fetchChartData_notOk(i)
        \/ fetchChartData_rejected(i)

\* the same program, with every request in flight settling eventually
SpecFair ==
    /\ Spec
    /\ WF_vars(VerifySettles)
    /\ WF_vars(ScanSettles)
    /\ WF_vars(ScoutSettles)
    /\ WF_vars(AnalyzeSettles)
    /\ WF_vars(ChartSettles)

\* the triggering controls: rendered with their page, disabled while loading
VerifyControlEnabled == MissionUp /\ ~isLoading
ScanControlEnabled == MissionUp /\ ~mmIsLoading
ScoutControlEnabled == DashboardUp /\ ~isScanning
AnalyzeControlEnabled == DashboardUp /\ ~isAnalyzing

\* --------------------------------------------------- formatter, on its own
\* VerifiedTradeCard renders one edge: the colour of the figure and the border of its card
renderEdge ==
    /\ ~fmt.done
    /\ fmt' = [edge |-> fmt.edge, done |-> TRUE,
               color |-> getEdgeColor(fmt.edge), border |-> edgeBorder(fmt.edge)]
    /\ UNCHANGED <<page, badgeFmt, viewVars, mcVars, dbVars, chartVars, histVars>>

\* values the recommendation and confidence fields of a verified trade can carry:
\* the documented ones and others
Labels == {"EXECUTE", "SKIP", "WAIT", "HIGH", "MEDIUM", "LOW", "execute", "HOLD", ""}

\* VerifiedTradeCard styles its recommendation and confidence badges
renderBadges ==
    /\ ~badgeFmt.done
    /\ badgeFmt' = [label |-> badgeFmt.label, done |-> TRUE,
                    recommendation |-> getRecommendationColor(badgeFmt.label),
                    confidence |-> getConfidenceColor(badgeFmt.label)]
    /\ UNCHANGED <<page, fmt, viewVars, mcVars, dbVars, chartVars, histVars>>

InitFmt ==
    /\ page = "mission"
    /\ badgeFmt \in {[label |-> l, done |-> FALSE, recommendation |-> "none",
                      confidence |-> "none"] : l \in Labels}
    /\ fmt \in {[edge |-> e, done |-> FALSE, color |-> "none", border |-> "none"] :
                 e \in (0 - EdgeBound)..EdgeBound}
    /\ InitView
    /\ InitMission
    /\ InitDashboard
    /\ InitChart

NextFmt == renderEdge \/ renderBadges

SpecFmt == InitFmt /\ [][NextFmt]_vars

\* ------------------------------------- the recent searches, with more tickers
\* symbols typed into the ticker box, one more than the list keeps
RecentTickers == {"AAPL", "TSLA", "MSFT", "NVDA", "AMZN", "GOOG"}

InitRecent ==
    /\ page = "dashboard"
    /\ fmt = NoFmt
    /\ badgeFmt = NoBadge
    /\ InitView
    /\ InitMission
    /\ InitDashboard
    /\ InitChart

NextRecent ==
    \/ \E typed \in RecentTickers : handleInputChange(typed)
    \/ \E i \in 1..5 : recentClick(i)
    \/ handleAnalyze
    \/ \E data \in AnalysisPayloads : handleAnalyze_resolved(data)
    \/ handleAnalyze_rejected

SpecRecent == InitRecent /\ [][NextRecent]_vars

\* ------------------------------------------- card and chart views, on their own
\* thought_chain of a verified trade: absent, empty, or steps by step_number as received
ThoughtChains ==
    {Absent(<<>>), Present(<<>>), Present(<<1>>), Present(<<1, 2>>), Present(<<2, 1>>)}

\* reasoning_audit of a verified trade: absent, the empty string, or a text
ReasoningAudits == {Absent(""), Present(""), Present("audit")}

\* prices of a get_stock_history body
Prices == {0, 90, 100, 110}

PriceSeries == UNION {[1..n -> Prices] : n \in 0..MaxPoints}

\* an expanded VerifiedTradeCard renders its audit card
renderAudit ==
    /\ ~auditFmt.done
    /\ auditFmt' = [auditFmt EXCEPT !.done = TRUE,
                                    !.view = thoughtAuditTrail(auditFmt.chain, auditFmt.audit)]
    /\ UNCHANGED <<page, fmt, badgeFmt, changeFmt, landingVars, mcVars, dbVars, chartVars, histVars>>

\* the data view of PriceChart renders its header
renderChange ==
    /\ ~changeFmt.done
    /\ changeFmt' = [changeFmt EXCEPT !.done = TRUE,
                        !.view = [currentPrice  |-> currentPrice(changeFmt.data),
                                  percentChange |-> percentChange(changeFmt.data),
                                  isPositive    |-> isPositive(changeFmt.data)]]
    /\ UNCHANGED <<page, fmt, badgeFmt, auditFmt, landingVars, mcVars, dbVars, chartVars, histVars>>

InitViews ==
    /\ page = "mission"
    /\ fmt = NoFmt
    /\ badgeFmt = NoBadge
    /\ auditFmt \in {[chain |-> c, audit |-> a, done |-> FALSE, view |-> NoAuditView] :
                      c \in ThoughtChains, a \in ReasoningAudits}
    /\ changeFmt \in {[data |-> d, done |-> FALSE, view |-> NoChangeView] : d \in PriceSeries}
    /\ InitTradingVisualization
    /\ InitMission
    /\ InitDashboard
    /\ InitChart

NextViews == renderAudit \/ renderChange

SpecViews == InitViews /\ [][NextViews]_vars

\* ------------------------------------------------ the landing page animation
\* the simulated price series of TradingVisualization
priceData == <<42, 44, 43, 47, 46, 49, 48, 52, 51, 55, 53, 58, 56, 54, 57, 60, 59, 63,
               62, 66, 64, 68, 67, 71, 69, 73, 72, 76, 74, 78>>

\* mutant: the cycle is reset one tick late
nextVisiblePoints_late(prev) == IF prev > Len(priceData) THEN 10 ELSE prev + 1

\* the updater of setVisiblePoints
nextVisiblePoints(prev) == IF prev >= Len(priceData) THEN 10 ELSE prev + 1

\* one firing of the 400 ms interval, with the effect on [visiblePoints] that React runs
\* after the render it causes: the updater resets the signal at the end of the series,
\* the effect raises it at 18 points and the confidence at 18 and 25
landingTick ==
    /\ page = "landing"
    /\ landingTicks < MaxLandingTicks
    /\ landingTicks' = landingTicks + 1
    /\ visiblePoints' = nextVisiblePoints(visiblePoints)
    /\ aiSignal' = IF visiblePoints' = 18 THEN TRUE
                   ELSE IF visiblePoints >= Len(priceData) THEN FALSE
                   ELSE aiSignal
    /\ confidence' = IF visiblePoints' = 25 THEN 94
                     ELSE IF visiblePoints' = 18 THEN 87
                     ELSE IF visiblePoints >= Len(priceData) THEN 0
                     ELSE confidence
    /\ last' = Done("landingTick", NoToast)
    /\ UNCHANGED <<fmt, badgeFmt, auditFmt, changeFmt, page, mcVars, mcHist, dbVars, dbHist,
                   chartVars>>

InitLanding ==
    /\ page = "landing"
    /\ fmt = NoFmt
    /\ badgeFmt = NoBadge
    /\ InitView
    /\ InitMission
    /\ InitDashboard
    /\ InitChart

NextLanding == landingTick

SpecLanding == InitLanding /\ [][NextLanding]_vars

\* ================================================================ claims
Cards == VerifiedTradeCards(response, expandedId)

ResponseIds == {response.top_opportunities[i].trade.market_id :
                  i \in 1..Len(response.top_opportunities)}

\* C1: after a verification resolves with a non-empty top_opportunities, the expanded
\* identifier is the market_id of its first element and only that card is expanded.
C1_AutoExpandFirst ==
    (last.op = "verifyResolved" /\ Len(delivered) > 0) =>
        /\ expandedId = delivered[1].trade.market_id
        /\ Len(Cards) = Len(delivered)
        /\ \A i \in 1..Len(Cards) : Cards[i].isExpanded <=> i = 1

\* the scenario [A(edge 8), B(edge 3)] has just arrived and A is the expanded card
C1_Witness ==
    /\ last.op = "verifyResolved"
    /\ Len(delivered) = 2
    /\ delivered[1].trade.market_id = "A" /\ delivered[1].edge = 8
    /\ delivered[2].trade.market_id = "B" /\ delivered[2].edge = 3
    /\ Cards[1].isExpanded /\ ~Cards[2].isExpanded

\* C2: a verification that resolves with top_opportunities = [] leaves the panel in the
\* empty-result state, which is never the idle state, and expands nothing.
C2_EmptyResult ==
    /\ ~(EmptyShown /\ IdleShown)
    /\ (last.op = "verifyResolved" /\ Len(delivered) = 0) =>
           (EmptyShown /\ ~IdleShown /\ expandedId = Null)

C2_Witness == last.op = "verifyResolved" /\ Len(delivered) = 0 /\ EmptyShown

\* C3: while a verification is running the step index stays in 0..N-1 (N = 5 stages)
\* and never decreases from one state of the request to the next.
C3_StepBounded ==
    /\ [](isLoading => currentStep \in 0..(Len(timelineSteps) - 1))
    /\ [][(isLoading /\ isLoading') => currentStep' >= currentStep]_vars

\* a tick has fired with the index at its clamp
C3_Witness ==
    isLoading /\ last.op = "tick" /\ currentStep = Len(timelineSteps) - 1

\* C4 as stated: two toggleExpand(m) in a row always leave m collapsed.
C4_Original == Len(toggleHist) = 2 => expandedId # toggleHist[1].id

\* C4 amended: two toggleExpand(m) in a row leave m as it was before the first of them:
\* collapsed if it was collapsed (whatever else was expanded), expanded if it was expanded.
C4_ToggleTwiceRestores ==
    Len(toggleHist) = 2 =>
        /\ toggleHist[1].id = toggleHist[2].id
        /\ (expandedId = toggleHist[1].id) <=> (toggleHist[2].before = toggleHist[1].id)
        /\ (toggleHist[2].before # toggleHist[1].id) => expandedId = Null

\* B was expanded, A has been toggled twice and is collapsed again
C4_Witness ==
    /\ Len(toggleHist) = 2
    /\ toggleHist[1].id = "A"
    /\ toggleHist[2].before = "B"
    /\ expandedId = Null

\* C5: the cards of a held response are the trades as the service sent them, in that
\* order, the card of the i-th trade carrying rank i, whatever has happened since.
C5_RankIsPosition ==
    (response.kind = "data" /\ response.hasTop) =>
        /\ Len(Cards) = Len(delivered)
        /\ \A i \in 1..Len(Cards) : Cards[i].rank = i /\ Cards[i].verified = delivered[i]

\* a response whose second trade has the higher edge is held, and a card was toggled
C5_Witness ==
    /\ last.op = "toggleExpand"
    /\ Len(delivered) = 2
    /\ delivered[2].edge > delivered[1].edge
    /\ Cards[1].rank = 1 /\ Cards[1].verified = delivered[1]

\* the tier a class name stands for
colorTier(c) ==
    CASE c = "text-emerald-400" -> "strong"
      [] c = "text-amber-400" -> "marginal"
      [] c = "text-rose-400" -> "negative"
      [] OTHER -> "none"

borderTier(c) ==
    CASE c = "border-emerald-500/50 bg-emerald-500/5" -> "strong"
      [] c = "border-amber-500/50 bg-amber-500/5" -> "marginal"
      [] c = "border-rose-500/50 bg-rose-500/5" -> "negative"
      [] OTHER -> "none"

\* C6: for every edge, getEdgeColor gives the strong tier from 5 up, the marginal tier
\* from 0 to below 5, the negative tier below 0, and the card border has the same tier.
C6_EdgeTiers ==
    fmt.done =>
        /\ colorTier(fmt.color) \in {"strong", "marginal", "negative"}
        /\ (fmt.edge >= 5) => colorTier(fmt.color) = "strong"
        /\ (fmt.edge >= 0 /\ fmt.edge < 5) => colorTier(fmt.color) = "marginal"
        /\ (fmt.edge < 0) => colorTier(fmt.color) = "negative"
        /\ borderTier(fmt.border) = colorTier(fmt.color)

\* the boundary edge 0 has been rendered
C6_Witness == fmt.done /\ fmt.edge = 0 /\ colorTier(fmt.color) = "marginal"

\* C7: a scan that fails leaves the opportunity list as it was when the scan was
\* invoked, emits an error notice, resets the loading flag and does not break the page.
C7_ScanFailureKeepsList ==
    [][(last'.op = "scanRejected") =>
          /\ opportunities' = scanSnap
          /\ last'.toast.kind = "error"
          /\ ~mmIsLoading'
          /\ ~RenderThrows']_vars

\* a scan has failed while a list from an earlier scan was shown
C7_Witness ==
    /\ last.op = "scanRejected"
    /\ Len(opportunities) > 0
    /\ last.toast.kind = "error"
    /\ ~mmIsLoading

\* C8 as stated: when a call fails, the result held when it was invoked (from an
\* earlier success) is still held, for all four remote operations.
C8_Original ==
    [][/\ (last'.op = "scanRejected") => opportunities' = scanSnap
       /\ (last'.op = "verifyRejected" /\ verifySnap.held) =>
             (response'.kind = "data" /\ expandedId' = verifySnap.expandedId)
       /\ (last'.op = "scoutRejected" /\ Len(scoutSnap) > 0) => results' = scoutSnap
       /\ (last'.op = "analyzeRejected" /\ analyzeSnap.set) => strategy' = analyzeSnap]_vars

\* C8 amended: only the scan keeps the earlier result on failure; verify_top3, the news
\* candidates and analyze_stock clear their result state when the request starts, so
\* after a failure it is empty; the progress timer is stopped and loading is over.
C8_FailureState ==
    [][/\ (last'.op = "scanRejected") => (opportunities' = scanSnap /\ ~mmIsLoading')
       /\ (last'.op = "verifyRejected") =>
             /\ response' = NoResponse /\ expandedId' = Null
             /\ stepIntervals' = 0 /\ ~isLoading'
       /\ (last'.op = "scoutRejected") => (results' = <<>> /\ ~isScanning')
       /\ (last'.op = "analyzeRejected") => (strategy' = NoStrategy /\ ~isAnalyzing')]_vars

\* a verification failed that was started while trade A of an earlier result was expanded
C8_Witness ==
    /\ last.op = "verifyRejected"
    /\ last.was = "A"
    /\ response = NoResponse
    /\ stepIntervals = 0

VerifyOps == {"fetchTop3", "tick", "verifyResolved", "verifyRejected", "verifyNoTops",
              "toggleExpand"}

\* C9: selecting an opportunity in the list never changes the expanded identifier or
\* the held response; no step of the verification panel changes the list selection.
C9_Decoupled ==
    [][/\ (last'.op = "onSelectOpportunity") =>
            (expandedId' = expandedId /\ response' = response)
       /\ (last'.op \in VerifyOps) => selectedOpportunity' = selectedOpportunity]_vars

\* both are set, on different markets, the selection made last
C9_Witness ==
    /\ last.op = "onSelectOpportunity"
    /\ selectedOpportunity.market_id = "B"
    /\ expandedId = "A"

\* C10: the expanded identifier is null or the market_id of a trade of the held
\* response; an identifier expanded before a new result and absent from it is not
\* expanded afterwards, and that resolution reports no error.
C10_ExpansionInResponse ==
    /\ expandedId = Null \/ expandedId \in ResponseIds
    /\ (last.op = "verifyResolved" /\ last.was # Null /\ last.was \notin ResponseIds) =>
           (expandedId # last.was /\ last.toast.kind # "error" /\ ~RenderThrows)

\* A was expanded, the new result holds only B
C10_Witness ==
    /\ last.op = "verifyResolved"
    /\ last.was = "A"
    /\ ResponseIds = {"B"}
    /\ expandedId = "B"

\* C11: at most one stepInterval is active at any time; a verification is started
\* only when none is in flight and no timer runs, and it starts exactly one timer.
C11_OneTimer ==
    /\ [](stepIntervals <= 1 /\ (page = "mission" => (stepIntervals = 1 <=> isLoading)))
    /\ [][(last'.op = "fetchTop3") =>
            (~isLoading /\ stepIntervals = 0 /\ stepIntervals' = 1)]_vars

\* a second verification runs, started while the result of a first one was held
C11_Witness == isLoading /\ verifySnap.held /\ stepIntervals = 1 /\ last.op = "tick"

VerifySettled == {"verifyResolved", "verifyRejected", "verifyNoTops"}

\* C12: the step that resolves a verification, with success or failure, stops the
\* timer; ticks happen only while the request is outstanding; the success path sets
\* the step to N = 5, and while the panel is not running the step does not change,
\* so a held result always goes with step N.
C12_TimerStopsOnResolution ==
    /\ [][(last'.op \in VerifySettled) => (stepIntervals' = 0 /\ ~isLoading')]_vars
    /\ [][(last'.op = "tick") => (isLoading /\ verifyPending > 0)]_vars
    /\ [][(last'.op = "verifyResolved") => currentStep' = Len(timelineSteps)]_vars
    /\ [][(page' = "mission" /\ ~isLoading /\ ~isLoading') => currentStep' = currentStep]_vars
    /\ []((page = "mission" /\ ~isLoading /\ response.kind = "data") =>
            currentStep = Len(timelineSteps))

\* a result has arrived, the timer is stopped and the step is still N two clicks later
C12_Witness ==
    /\ Len(toggleHist) = 2
    /\ currentStep = Len(timelineSteps)
    /\ stepIntervals = 0
    /\ ~isLoading

\* C13: after a verification that ends in the failure path (transport error,
\* non-success status, or an exception raised while the response is handled) the panel
\* holds no result: response null, expanded identifier null, not loading, the idle
\* state of a panel that never ran.
C13_FailureHoldsNoResult ==
    [][(last'.op \in {"verifyRejected", "verifyNoTops"}) =>
          /\ response' = NoResponse
          /\ expandedId' = Null
          /\ ~isLoading'
          /\ IdleShown']_vars

\* upper and lower case of one letter
CasePairs == {<<"B", "b">>, <<"C", "c">>, <<"E", "e">>, <<"H", "h">>, <<"K", "k">>,
              <<"P", "p">>, <<"S", "s">>, <<"T", "t">>}

SameLetter(a, b) == a = b \/ <<a, b>> \in CasePairs \/ <<b, a>> \in CasePairs

\* sub occurs in str at some offset, letter case ignored
ContainsCI(str, sub) ==
    \E off \in 0..(Len(str) - Len(sub)) : \A k \in 1..Len(sub) : SameLetter(str[off + k], sub[k])

Matches(opp) == ContainsCI(opp.title, searchQuery) \/ ContainsCI(opp.event_ticker, searchQuery)

\* shown picks, in the order of all, exactly the matching elements of all
IsFilteredSubsequence(shown, all) ==
    \E f \in [1..Len(shown) -> 1..Len(all)] :
        /\ \A i, j \in 1..Len(shown) : i < j => f[i] < f[j]
        /\ \A i \in 1..Len(shown) : shown[i] = all[f[i]]
        /\ {f[i] : i \in 1..Len(shown)} = {j \in 1..Len(all) : Matches(all[j])}

\* C14: when the list panel is not loading, the cards shown are exactly the stored
\* opportunities whose title or event_ticker contains the filter text, letter case
\* ignored, in their stored order; typing in the filter starts no request and leaves the
\* stored set alone; the stored set is replaced only by the continuation of a scan that
\* answered 2xx (and discarded with the page).
C14_FilterIsClientSide ==
    /\ [](~mmIsLoading => IsFilteredSubsequence(displayedOpportunities, opportunities))
    /\ [][(last'.op = "setSearchQuery") =>
            /\ opportunities' = opportunities
            /\ scanPending' = scanPending /\ verifyPending' = verifyPending
            /\ mmIsLoading' = mmIsLoading /\ isLoading' = isLoading]_vars
    /\ [][(opportunities' # opportunities) =>
            last'.op \in {"scanResolved", "scanNoTrades", "unmount"}]_vars

\* [A, B] is stored, "KE" was typed, and only B (event_ticker "KE") is shown
C14_Witness ==
    /\ last.op = "setSearchQuery"
    /\ ~mmIsLoading
    /\ Len(opportunities) = 2
    /\ opportunities[1].market_id = "A" /\ opportunities[2].market_id = "B"
    /\ searchQuery = <<"K", "E">>
    /\ Len(displayedOpportunities) = 1
    /\ displayedOpportunities[1].market_id = "B"

\* the steps in which a remote call fails by transport error or non-success status
RemoteFailures == {"scanRejected", "verifyRejected", "scoutRejected", "analyzeRejected",
                   "chartNotOk", "chartRejected"}

\* C15: every failure of a remote call (scan, verify_top3, news candidates,
\* analyze_stock, stock history) is handled in the step that receives it, emits a
\* notice the user sees, and leaves the page rendering.
C15_FailuresNoticed ==
    [][(last'.op \in RemoteFailures) =>
          (last'.toast.kind = "error" /\ ~RenderThrows')]_vars

\* C16: once a scan, verify, scout or analyze request has settled, with success or
\* failure, its loading flag eventually is false and its triggering control is
\* rendered and enabled again.
C16_Recoverable ==
    /\ (last.op \in VerifySettled) ~> VerifyControlEnabled
    /\ (last.op \in {"scanResolved", "scanRejected", "scanNoTrades"}) ~> ScanControlEnabled
    /\ (last.op \in {"scoutResolved", "scoutRejected"}) ~> ScoutControlEnabled
    /\ (last.op \in {"analyzeResolved", "analyzeRejected"}) ~> AnalyzeControlEnabled

RecommendationLabels == {"EXECUTE", "SKIP", "WAIT"}

ConfidenceLabels == {"HIGH", "MEDIUM", "LOW"}

\* C17: the two style mappings are total: the three recommendation labels get three
\* pairwise different badge styles, the three confidence labels three pairwise
\* different colours, and any other input gets the default style, which is none of
\* the three.
C17_StyleMappingsTotal ==
    /\ \A a, b \in RecommendationLabels :
           a # b => getRecommendationColor(a) # getRecommendationColor(b)
    /\ \A a, b \in ConfidenceLabels : a # b => getConfidenceColor(a) # getConfidenceColor(b)
    /\ badgeFmt.done =>
           /\ (badgeFmt.label \in RecommendationLabels) =>
                  badgeFmt.recommendation = getRecommendationColor(badgeFmt.label)
           /\ (badgeFmt.label \notin RecommendationLabels) =>
                  /\ badgeFmt.recommendation = "text-muted-foreground bg-muted"
                  /\ \A a \in RecommendationLabels :
                         getRecommendationColor(a) # badgeFmt.recommendation
           /\ (badgeFmt.label \in ConfidenceLabels) =>
                  badgeFmt.confidence = getConfidenceColor(badgeFmt.label)
           /\ (badgeFmt.label \notin ConfidenceLabels) =>
                  /\ badgeFmt.confidence = "text-muted-foreground"
                  /\ \A a \in ConfidenceLabels : getConfidenceColor(a) # badgeFmt.confidence

\* a label that differs from EXECUTE only in case has been styled with the defaults
C17_Witness ==
    /\ badgeFmt.done
    /\ badgeFmt.label = "execute"
    /\ badgeFmt.recommendation = "text-muted-foreground bg-muted"
    /\ badgeFmt.confidence = "text-muted-foreground"

\* the list area of a MarketMonitor that has never scanned (its state after mount)
NeverScannedView == [scanning |-> FALSE, cards |-> <<>>, noTrades |-> TRUE]

\* C18: a successful response with zero items is shown as an empty state that differs
\* from the never-run state: the verification panel shows its empty-result block and
\* not the idle block, and the list panel after a successful scan without trades does
\* not look like the list panel before any scan.
C18_EmptyDistinctFromNeverRun ==
    /\ (last.op = "verifyResolved" /\ Len(delivered) = 0) => (EmptyShown /\ ~IdleShown)
    /\ (last.op = "scanResolved" /\ Len(opportunities) = 0) =>
           MarketMonitorView # NeverScannedView

\* C19: the start of a verification sets the step to 0; a tick changes the step from s
\* to min(s + 1, N - 1) and nothing else of the page; the step becomes N only in a step
\* that delivers a response, and the panel stops running only when the request settles
\* (or the page is left), never by ticks.
C19_TicksOnlyAdvance ==
    /\ [][(last'.op = "fetchTop3") => (currentStep' = 0 /\ isLoading')]_vars
    /\ [][(last'.op = "tick") =>
            /\ \/ currentStep' = currentStep + 1 /\ currentStep' <= Len(timelineSteps) - 1
               \/ currentStep' = currentStep /\ currentStep = Len(timelineSteps) - 1
            /\ UNCHANGED <<selectedOpportunity, mmVars, isLoading, response, expandedId,
                           stepIntervals, verifyPending>>]_vars
    /\ [][(currentStep' = Len(timelineSteps) /\ currentStep # Len(timelineSteps)) =>
            last'.op \in {"verifyResolved", "verifyNoTops"}]_vars
    /\ [][(isLoading /\ ~isLoading') => last'.op \in (VerifySettled \cup {"unmount"})]_vars

\* the timer has fired with the step at the last stage while the verification and a
\* scan are both still outstanding
C19_Witness ==
    /\ last.op = "tick"
    /\ currentStep = Len(timelineSteps) - 1
    /\ isLoading /\ verifyPending = 1
    /\ mmIsLoading /\ scanPending = 1

\* C20: every exit of a verification whose timer runs stops that timer in the step of
\* the exit: the successful resolution, the failed resolution (an exception after the
\* response arrived included), and the unmount of the panel with the request in flight.
C20_CancelledOnEveryExit ==
    [][(stepIntervals = 1 /\ last'.op \in (VerifySettled \cup {"unmount"})) =>
          stepIntervals' = 0]_vars

\* the request the chart now asks for
CurrentRequest == [ticker |-> analyzedTicker, period |-> activeTimeframe]

\* C21: every answer of a history request is applied when it resolves, whatever
\* was issued or applied since: after the step the held series is the one of the
\* request that resolved, also when that request is not the one for the ticker and
\* timeframe now selected.
C21_AppliedInResolveOrder ==
    [][(last'.op = "chartResolved") =>
          \E i \in 1..Len(chartPending) :
              /\ chartPending' = Remove(chartPending, i)
              /\ chartOf' = chartPending[i]
              /\ hasFetched']_vars

\* the later-issued request settled first and the earlier-issued one resolved after it:
\* nothing is in flight and the series shown is that of the superseded ticker
C21_Witness ==
    /\ last.op = "chartResolved"
    /\ chartPending = <<>>
    /\ hasFetched /\ ~chartLoading
    /\ analyzedTicker = "TSLA"
    /\ chartOf = [ticker |-> "AAPL", period |-> activeTimeframe]

\* C22: in the audit section, a trade with a non-empty thought chain has its steps
\* rendered in the order received and no fallback text, whether or not it also has an
\* audit string; the fallback text is rendered only without a chain (absent or empty),
\* and it is then the audit string; with neither, the section is omitted.
C22_ChainBeforeFallback ==
    auditFmt.done =>
        LET chain == auditFmt.chain
            audit == auditFmt.audit
            view  == auditFmt.view
            some  == chain.present /\ chain.val # <<>>
        IN  /\ some => (view.section /\ view.steps = chain.val /\ ~view.fallback)
            /\ view.fallback => (~some /\ audit.present /\ view.text = audit.val)
            /\ (~some /\ ~audit.present) => ~view.section
            /\ (~some /\ audit.present /\ audit.val # "") => (view.section /\ view.fallback)

\* a trade with the chain <<2, 1>> and an audit string: the two steps in that order
C22_Witness ==
    /\ auditFmt.done
    /\ auditFmt.chain = Present(<<2, 1>>)
    /\ auditFmt.audit = Present("audit")
    /\ auditFmt.view.steps = <<2, 1>>
    /\ ~auditFmt.view.fallback

Abs(x) == IF x < 0 THEN 0 - x ELSE x

\* C23: the change indicator is shown as positive exactly when the last price of the
\* series is greater than the first; the percentage is the change relative to the
\* first price, to the nearest hundredth, and 0.00 when the first price is 0.
C23_SignConvention ==
    changeFmt.done =>
        LET data  == changeFmt.data
            first == IF data = <<>> THEN 0 ELSE data[1]
            final == IF data = <<>> THEN 0 ELSE data[Len(data)]
            view  == changeFmt.view
        IN  /\ view.isPositive <=> final > first
            /\ (first = 0) => view.percentChange = 0
            /\ (first # 0) =>
                   2 * Abs(view.percentChange * first - (final - first) * 10000) <= first

\* C24: while the verification panel is mounted, isLoading holds exactly when a verify
\* request is outstanding and exactly when the progress timer is active; never more
\* than one verify request is in flight, so the request that settles is always the one
\* the panel is waiting for.
C24_LoadingIffOutstanding ==
    /\ []((page = "mission") =>
            /\ isLoading <=> verifyPending = 1
            /\ isLoading <=> stepIntervals = 1)
    /\ [](verifyPending \in {0, 1})
    /\ [][(last'.op \in VerifySettled) =>
            (isLoading /\ verifyPending = 1 /\ verifyPending' = 0 /\ ~isLoading')]_vars

\* a verification has failed while a scan is still outstanding: the panel is idle again
C24_Witness ==
    /\ last.op = "verifyRejected"
    /\ ~isLoading /\ verifyPending = 0 /\ stepIntervals = 0
    /\ mmIsLoading /\ scanPending = 1

\* C25: in the price chart, whenever the loading flag is false no history request is
\* outstanding: with two overlapping requests the first to settle does not turn the
\* loading indicator off.
C25_NotLoadingMeansIdle == (page = "chart" /\ ~chartLoading) => chartPending = <<>>

Elems(seq) == {seq[i] : i \in 1..Len(seq)}

\* the position of t in seq (0 when absent)
PosIn(seq, t) == IF t \in Elems(seq) THEN CHOOSE i \in 1..Len(seq) : seq[i] = t ELSE 0

\* C26: the recent searches never hold more than 5 tickers nor one ticker twice, and the
\* ticker analyzed last is at the head.  An analysis puts its ticker at the head, keeps
\* the other tickers in the order they had, drops at most the last one and only to make
\* room in a full list, and leaves the length alone when the ticker was in the list.
C26_RecentSearches ==
    /\ [](/\ Len(recentSearches) <= 5
          /\ \A i, j \in 1..Len(recentSearches) :
                 i # j => recentSearches[i] # recentSearches[j]
          /\ recentSearches # <<>> => recentSearches[1] = analyzedTicker)
    /\ [][(last'.op = "handleAnalyze") =>
            LET old == recentSearches
                new == recentSearches'
                t   == selectedTicker
            IN  /\ new[1] = t
                /\ Elems(new) \subseteq Elems(old) \cup {t}
                /\ \A a, b \in Elems(new) \ {t} :
                       PosIn(new, a) < PosIn(new, b) <=> PosIn(old, a) < PosIn(old, b)
                /\ (t \in Elems(old)) => (Len(new) = Len(old) /\ Elems(new) = Elems(old))
                /\ (t \notin Elems(old) /\ Len(old) < 5) =>
                       (Len(new) = Len(old) + 1 /\ Elems(new) = Elems(old) \cup {t})
                /\ (t \notin Elems(old) /\ Len(old) = 5) =>
                       (Len(new) = 5 /\ Elems(new) = (Elems(old) \ {old[5]}) \cup {t})]_vars

\* five tickers have been analyzed, GOOG last: the list is full
C26_Witness ==
    /\ last.op = "handleAnalyze"
    /\ Len(recentSearches) = 5
    /\ recentSearches = <<"GOOG", "AAPL", "TSLA", "MSFT", "NVDA">>

InputOps == {"handleInputChange", "recentClick", "handleSubmit", "handleSelectResult"}

C28_EmptyInputIsRejected ==
    /\ [][(last'.op = "handleAnalyzeEmpty") =>
            /\ selectedTicker = ""
            /\ last'.toast.kind = "error"
            /\ UNCHANGED <<dbVars, chartVars>>]_vars
    /\ [][(last'.op = "handleAnalyze") =>
            /\ selectedTicker # ""
            /\ strategy' = NoStrategy /\ isAnalyzing'
            /\ analyzePending' = analyzePending + 1]_vars
    /\ [][(strategy'.set /\ strategy' # strategy) => last'.op = "analyzeResolved"]_vars
    /\ [](isAnalyzing => ~strategy.set)

\* a strategy for AAPL is held, the box was emptied and the analyze button clicked
C28_Witness ==
    /\ last.op = "handleAnalyzeEmpty"
    /\ selectedTicker = ""
    /\ strategy.set
    /\ analyzedTicker = "AAPL"
    /\ ~isAnalyzing /\ analyzePending = 0

ScanOps == {"fetchOpportunities", "scanResolved", "scanRejected", "scanNoTrades"}

\* C29: no step of a scan (its start, its success with any result set, its failure)
\* changes the selected opportunity, also when the new result set does not hold its
\* market_id; selecting an opportunity starts no request and changes no list.
C29_SelectionSurvivesScans ==
    /\ [][(last'.op \in ScanOps) => selectedOpportunity' = selectedOpportunity]_vars
    /\ [][(last'.op = "onSelectOpportunity") =>
            UNCHANGED <<opportunities, mmIsLoading, scanPending, isLoading, verifyPending,
                        stepIntervals>>]_vars

\* A is selected and a scan has just delivered a list without A
C29_Witness ==
    /\ last.op = "scanResolved"
    /\ selectedOpportunity.market_id = "A"
    /\ Len(opportunities) > 0
    /\ \A i \in 1..Len(opportunities) : opportunities[i].market_id # "A"

====
